---- MODULE Spec2Model ----
\* A model of github.com/arjanvaneersel/vcard: the field formatters of
\* fields.go (lines 1-535, the Format(version) design that vcard.go uses) and
\* the card operations of vcard.go (versions, fieldMap, Validate, Generate,
\* New).  Text is modelled by TLA+ strings, "\n" being the line separator the
\* code writes; errors are records compared by identity, as Go compares them.
EXTENDS Integers, Sequences, FiniteSets, TLC

\* ------------------------------------------------------------------ bounds

\* Longest field list a caller passes to New or puts in a VCard literal.
MaxFields == 2

\* ------------------------------------------------------------- text helpers

\* strings.Join(elems, sep)
RECURSIVE Join(_, _)
Join(elems, sep) ==
    IF Len(elems) = 0 THEN ""
    ELSE IF Len(elems) = 1 THEN elems[1]
    ELSE elems[1] \o sep \o Join(Tail(elems), sep)

\* strings.ToLower on the ASCII letters
UpperLetters == "ABCDEFGHIJKLMNOPQRSTUVWXYZ"

LowerLetters == "abcdefghijklmnopqrstuvwxyz"

LowerChar(c) ==
    IF \E i \in 1..26 : SubSeq(UpperLetters, i, i) = c
    THEN LET i == CHOOSE j \in 1..26 : SubSeq(UpperLetters, j, j) = c
         IN  SubSeq(LowerLetters, i, i)
    ELSE c

RECURSIVE ToLower(_)
ToLower(s) ==
    IF Len(s) = 0 THEN ""
    ELSE LowerChar(SubSeq(s, 1, 1)) \o ToLower(SubSeq(s, 2, Len(s)))

\* fmt's %f on a float64 that has at most six decimals; the value is given in
\* millionths (39.95 is 39950000).
FormatF(micro) ==
    LET abs  == IF micro < 0 THEN 0 - micro ELSE micro
        frac == ToString(abs % 1000000)
    IN  (IF micro < 0 THEN "-" ELSE "") \o ToString(abs \div 1000000) \o "."
        \o SubSeq("000000", 1, 6 - Len(frac)) \o frac

\* fmt's %s on a *url.URL: the URL's text, or "<nil>" for a nil pointer.
NilURL == [nil |-> TRUE]

URLString(u) == IF u = NilURL THEN "<nil>" ELSE u.text

\* ------------------------------------------------------------------ errors

Nil == [type |-> "nil"]

ErrVersion == [type |-> "*errors.errorString", msg |-> "unsupported verson"]

VersionError == [type |-> "*vcard.VersionError"]

\* fmt.Errorf(...)
Errorf(msg) == [type |-> "*fmt.wrapError", msg |-> msg]

\* --------------------------------------------------------------- constants

dateFormat == "20060102"

dateTimeFormat == "20060102T150405Z0700"

TelVoice == "voice"

\* time.Time.Format(layout) for the two layouts of the package and for
\* "2006-01-02"; a layout without reference elements is printed as it is.
TimeFormat(t, layout) ==
    CASE layout = dateFormat     -> t.Year \o t.Month \o t.Day
      [] layout = dateTimeFormat -> t.Year \o t.Month \o t.Day \o "T" \o t.Clock \o t.Zone
      [] layout = "2006-01-02"   -> t.Year \o "-" \o t.Month \o "-" \o t.Day
      [] OTHER                   -> layout

\* A nil *VCard.
NoCard == [nil |-> TRUE]

\* ---------------------------------------------------------- field formatters
\* A field value is a record: kind names its Go struct type, the other fields
\* are the struct's fields.  [kind |-> "Ptr", Elem |-> f] is a pointer to the
\* field value f (&FN{...}): Go calls the value-receiver Format through it.
\* A Format result is [out |-> text, err |-> error].

Ok(text) == [out |-> text, err |-> Nil]

Fail(e) == [out |-> "", err |-> e]

AllVersions(v) == v \in {"2.1", "3.0", "4.0"}

\* func (f N) Format
FormatN(f, v) ==
    IF AllVersions(v)
    THEN Ok("N:" \o f.FamilyName \o ";" \o f.GivenName \o ";" \o f.AdditionalNames
            \o ";" \o f.HonorificPrefixes \o ";" \o f.HonorificSuffixes)
    ELSE Fail(ErrVersion)

\* func (f FN) Format
FormatFN(f, v) ==
    IF AllVersions(v) THEN Ok("FN:" \o f.FormattedName) ELSE Fail(ErrVersion)

\* func (f Org) Format
FormatOrg(f, v) ==
    IF AllVersions(v)
    THEN LET l == "ORG:" \o f.Name
         IN  Ok(IF Len(f.Units) > 0 THEN l \o ";" \o Join(f.Units, ";") ELSE l)
    ELSE Fail(ErrVersion)

\* func (f Title) Format
FormatTitle(f, v) ==
    IF AllVersions(v) THEN Ok("TITLE:" \o f.Title) ELSE Fail(ErrVersion)

\* func (f Role) Format
FormatRole(f, v) ==
    IF AllVersions(v) THEN Ok("ROLE:" \o f.Role) ELSE Fail(ErrVersion)

\* mediaString writing the type parameter whether or not a type is given.
mediaStringAlwaysType(v, field, tp, b64, uri) ==
    CASE v = "2.1" ->
           IF Len(b64) # 0
           THEN Ok(field \o ";" \o tp \o ";ENCODING=BASE64:" \o b64)
           ELSE Ok(field \o ";" \o tp \o ":" \o URLString(uri))
      [] v = "3.0" ->
           IF Len(b64) > 0
           THEN Ok(field \o ";TYPE=" \o tp \o ";ENCODING=b:" \o b64)
           ELSE Ok(field \o ";TYPE=" \o tp \o ";VALUE=uri:" \o URLString(uri))
      [] v = "4.0" ->
           IF Len(b64) # 0
           THEN Ok(field \o ":data:" \o tp \o ";base64," \o b64)
           ELSE Ok(field \o ";MEDIATYPE=" \o tp \o ":" \o URLString(uri))
      [] OTHER -> Fail(ErrVersion)

\* func mediaString(v, field, tp, b64, uri)
mediaString(v, field, tp, b64, uri) ==
    CASE v = "2.1" ->
           LET b == field \o (IF tp # "" THEN ";" \o tp ELSE "")
           IN  IF Len(b64) # 0
               THEN Ok(b \o ";ENCODING=BASE64:" \o b64)
               ELSE Ok(b \o ":" \o URLString(uri))
      [] v = "3.0" ->
           LET b == field \o (IF tp # "" THEN ";TYPE=" \o tp ELSE "")
           IN  IF Len(b64) > 0
               THEN Ok(b \o ";ENCODING=b:" \o b64)
               ELSE Ok(b \o ";VALUE=uri:" \o URLString(uri))
      [] v = "4.0" ->
           IF Len(b64) # 0
           THEN Ok(field \o ":data:" \o tp \o ";base64," \o b64)
           ELSE Ok(field \o (IF tp # "" THEN ";MEDIATYPE=" \o tp ELSE "")
                   \o ":" \o URLString(uri))
      [] OTHER -> Fail(ErrVersion)

\* func (f Photo) Format
FormatPhoto(f, v) == mediaString(v, "PHOTO", f.Type, f.Base64Data, f.URI)

\* Tel.Format taking the default only when no type is given at all.
FormatTelNoTypes(f, v) ==
    IF AllVersions(v)
    THEN Ok("TEL;TYPE=" \o (IF Len(f.Types) = 0 THEN TelVoice ELSE Join(f.Types, ","))
            \o ":" \o f.Number)
    ELSE Fail(ErrVersion)

\* func (f Tel) Format
FormatTel(f, v) ==
    IF AllVersions(v)
    THEN LET t == Join(f.Types, ",")
         IN  Ok("TEL;TYPE=" \o (IF t = "" THEN TelVoice ELSE t) \o ":" \o f.Number)
    ELSE Fail(ErrVersion)

\* func (f Adr) Format
FormatAdr(f, v) ==
    IF AllVersions(v)
    THEN LET t == Join(f.Types, ",")
         IN  Ok("ADR;TYPE=" \o (IF t = "" THEN "intl,postal,parcel,work" ELSE t)
                \o ":" \o f.PostOfficeBox \o ";" \o f.ExtendedAddress
                \o ";" \o f.StreetAddress \o ";" \o f.Locality \o ";" \o f.Region
                \o ";" \o f.PostalCode \o ";" \o f.CountryName)
    ELSE Fail(ErrVersion)

\* func (f Email) Format
FormatEmail(f, v) ==
    IF AllVersions(v)
    THEN Ok("EMAIL" \o (IF Len(f.Types) > 0 THEN ";TYPE=" \o Join(f.Types, ",") ELSE "")
            \o ":" \o f.Email)
    ELSE Fail(ErrVersion)

\* func (f Rev) Format
FormatRev(f, v) ==
    IF AllVersions(v)
    THEN LET format == IF f.TimeFormat # "" THEN f.TimeFormat ELSE dateTimeFormat
         IN  Ok("REV:" \o TimeFormat(f.Timestamp, format))
    ELSE Fail(ErrVersion)

\* func (f Anniversary) Format
FormatAnniversary(f, v) ==
    IF v = "4.0"
    THEN LET format == IF f.TimeFormat # "" THEN f.TimeFormat ELSE dateFormat
         IN  Ok("ANNIVERSARY:" \o TimeFormat(f.Date, format))
    ELSE Fail(ErrVersion)

\* func (f Bday) Format
FormatBday(f, v) ==
    IF AllVersions(v)
    THEN LET format == IF f.TimeFormat # "" THEN f.TimeFormat ELSE dateFormat
         IN  Ok("BDAY:" \o TimeFormat(f.Timestamp, format))
    ELSE Fail(ErrVersion)

\* func (f FbURL) Format
FormatFbURL(f, v) ==
    IF v = "4.0" THEN Ok("FBURL:" \o URLString(f.URL)) ELSE Fail(ErrVersion)

\* func (f Gender) Format
FormatGender(f, v) ==
    IF v = "4.0" THEN Ok("GENDER:" \o f.Val) ELSE Fail(ErrVersion)

\* func (f Geo) Format
FormatGeo(f, v) ==
    CASE v \in {"2.1", "3.0"} -> Ok("GEO:" \o FormatF(f.Lat) \o "," \o FormatF(f.Long))
      [] v = "4.0" -> Ok("GEO:geo:" \o FormatF(f.Lat) \o "," \o FormatF(f.Long))
      [] OTHER -> Fail(ErrVersion)

\* IMPP rendering for every version of the package.
FormatIMPPAllVersions(f, v) ==
    IF AllVersions(v)
    THEN Ok("IMPP:" \o ToLower(f.Platform) \o ":" \o f.Handle)
    ELSE Fail(ErrVersion)

\* func (f IMPP) Format
FormatIMPP(f, v) ==
    IF v \in {"3.0", "4.0"}
    THEN Ok("IMPP:" \o ToLower(f.Platform) \o ":" \o f.Handle)
    ELSE Fail(ErrVersion)

\* Key.Format calling mediaString as Photo.Format does.
FormatKeyAsMedia(f, v) == mediaString(v, "KEY", f.Type, f.Data, f.URI)

\* func (f Key) Format
FormatKey(f, v) ==
    CASE v = "2.1" ->
           IF Len(f.Data) > 0
           THEN Ok("KEY;" \o f.Type \o (IF f.Binary THEN ";ENCODING=BASE64" ELSE "")
                   \o ":" \o f.Data)
           ELSE Ok("KEY;" \o f.Type \o ":" \o URLString(f.URI))
      [] v = "3.0" ->
           IF Len(f.Data) > 0
           THEN Ok("KEY;TYPE=" \o f.Type \o (IF f.Binary THEN ";ENCODING=b" ELSE "")
                   \o ":" \o f.Data)
           ELSE Ok("KEY;TYPE=" \o f.Type \o ":" \o URLString(f.URI))
      [] v = "4.0" ->
           IF Len(f.Data) > 0
           THEN Ok("KEY:data:" \o f.Type \o ";" \o (IF f.Binary THEN "base64," ELSE "")
                   \o f.Data)
           ELSE Ok("KEY;MEDIATYPE=" \o f.Type \o ":" \o URLString(f.URI))
      [] OTHER -> Fail(ErrVersion)

\* func (f Kind) Format: KIND, the kind of object the card represents, in
\* lower case, for 4.0 alone.
FormatKind(f, v) ==
    IF v = "4.0" THEN Ok("KIND:" \o ToLower(f.Text)) ELSE Fail(ErrVersion)

RECURSIVE Format(_, _)
RECURSIVE GenerateFrom(_, _, _)

\* The loop of Generate writing a separator after END:VCARD too.
RECURSIVE GenerateFromTrailing(_, _, _)
GenerateFromTrailing(c, i, buf) ==
    IF i > Len(c.Fields)
    THEN Ok(buf \o "\nEND:VCARD\n")
    ELSE LET r == Format(c.Fields[i], c.Version)
         IN  IF r.err # Nil
             THEN Fail(r.err)
             ELSE GenerateFromTrailing(c, i + 1, buf \o "\n" \o r.out)

\* The loop of Generate returning the buffer written so far with the error.
RECURSIVE GenerateFromPartial(_, _, _)
GenerateFromPartial(c, i, buf) ==
    IF i > Len(c.Fields)
    THEN Ok(buf \o "\nEND:VCARD")
    ELSE LET r == Format(c.Fields[i], c.Version)
         IN  IF r.err # Nil
             THEN [out |-> buf, err |-> r.err]
             ELSE GenerateFromPartial(c, i + 1, buf \o "\n" \o r.out)

\* The loop of Generate from field i on, buf being the buffer written so far:
\* the first Format error ends the call with "" and that error.
GenerateFrom(c, i, buf) ==
    IF i > Len(c.Fields)
    THEN Ok(buf \o "\nEND:VCARD")
    ELSE LET r == Format(c.Fields[i], c.Version)
         IN  IF r.err # Nil
             THEN Fail(r.err)
             ELSE GenerateFrom(c, i + 1, buf \o "\n" \o r.out)

\* func (v *VCard) Generate
Generate(c) == GenerateFrom(c, 1, "BEGIN:VCARD\nVERSION:" \o c.Version)

\* Agent.Format rendering the nested card for the version it is asked for.
FormatAgentOuterVersion(f, v) ==
    IF v \in {"2.1", "3.0"}
    THEN IF f.VCard # NoCard
         THEN LET g == Generate([f.VCard EXCEPT !.Version = v])
              IN  IF g.err # Nil THEN Fail(g.err) ELSE Ok("AGENT:" \o g.out)
         ELSE Ok("AGENT:" \o f.Text)
    ELSE Fail(ErrVersion)

\* Agent.Format wrapping the nested card's error in one of its own.
FormatAgentWrapsError(f, v) ==
    IF v \in {"2.1", "3.0"}
    THEN IF f.VCard # NoCard
         THEN LET g == Generate(f.VCard)
              IN  IF g.err # Nil
                  THEN Fail(Errorf("agent: " \o g.err.msg))
                  ELSE Ok("AGENT:" \o g.out)
         ELSE Ok("AGENT:" \o f.Text)
    ELSE Fail(ErrVersion)

\* Agent.Format rendering the text whenever there is one.
FormatAgentTextFirst(f, v) ==
    IF v \in {"2.1", "3.0"}
    THEN IF f.VCard # NoCard /\ f.Text = ""
         THEN LET g == Generate(f.VCard)
              IN  IF g.err # Nil THEN Fail(g.err) ELSE Ok("AGENT:" \o g.out)
         ELSE Ok("AGENT:" \o f.Text)
    ELSE Fail(ErrVersion)

\* func (f Agent) Format
FormatAgent(f, v) ==
    IF v \in {"2.1", "3.0"}
    THEN IF f.VCard # NoCard
         THEN LET g == Generate(f.VCard)
              IN  IF g.err # Nil THEN Fail(g.err) ELSE Ok("AGENT:" \o g.out)
         ELSE Ok("AGENT:" \o f.Text)
    ELSE Fail(ErrVersion)

\* v.Fields[i].Format(version): the call through the FieldFormatter interface.
Format(f, v) ==
    CASE f.kind = "Ptr"         -> Format(f.Elem, v)
      [] f.kind = "N"           -> FormatN(f, v)
      [] f.kind = "FN"          -> FormatFN(f, v)
      [] f.kind = "Org"         -> FormatOrg(f, v)
      [] f.kind = "Title"       -> FormatTitle(f, v)
      [] f.kind = "Role"        -> FormatRole(f, v)
      [] f.kind = "Photo"       -> FormatPhoto(f, v)
      [] f.kind = "Tel"         -> FormatTel(f, v)
      [] f.kind = "Adr"         -> FormatAdr(f, v)
      [] f.kind = "Email"       -> FormatEmail(f, v)
      [] f.kind = "Rev"         -> FormatRev(f, v)
      [] f.kind = "Agent"       -> FormatAgent(f, v)
      [] f.kind = "Anniversary" -> FormatAnniversary(f, v)
      [] f.kind = "Bday"        -> FormatBday(f, v)
      [] f.kind = "FbURL"       -> FormatFbURL(f, v)
      [] f.kind = "Gender"      -> FormatGender(f, v)
      [] f.kind = "Geo"         -> FormatGeo(f, v)
      [] f.kind = "IMPP"        -> FormatIMPP(f, v)
      [] f.kind = "Key"         -> FormatKey(f, v)
      [] f.kind = "Kind"        -> FormatKind(f, v)

\* reflect.TypeOf taking a pointer for the type it points to.
TypeOfElem(f) == IF f.kind = "Ptr" THEN "vcard." \o f.Elem.kind ELSE "vcard." \o f.kind

\* reflect.TypeOf(f), printed as %T and %s print it.
TypeOf(f) == IF f.kind = "Ptr" THEN "*vcard." \o f.Elem.kind ELSE "vcard." \o f.kind

\* ------------------------------------------------------------------- state

VARIABLES
    versions,   \* the package variable versions: version -> its required types
    inVersion,  \* the version string the caller passes
    inFields,   \* the field list the caller passes
    card,       \* the caller's *VCard: NoCard, or [Version, Fields]
    origin,     \* how card was made: "none", "New" or "Literal"
    last,       \* the last call and what it returned
    procs,      \* the goroutines calling concurrently: where each call stands
    heap,       \* the cards Agent fields point to, by address
    stack       \* the frames of the Generate calls in progress, innermost last

vars == <<versions, inVersion, inFields, card, origin, last, procs, heap, stack>>

\* ---------------------------------------------------------- card operations

\* var versions = map[string]version{...}
VersionsTable ==
    [v \in {"2.1", "3.0", "4.0"} |->
        [required |-> CASE v = "2.1" -> <<"vcard.N">>
                        [] v = "3.0" -> <<"vcard.N", "vcard.FN">>
                        [] v = "4.0" -> <<"vcard.FN">>]]

\* versions[v].required: a missing key gives the zero version, with no
\* required types.
RequiredOf(v) == IF v \in DOMAIN versions THEN versions[v].required ELSE <<>>

\* fieldMap with its size hint len(v.Fields)-1 taken for the loop bound: the
\* last field is not counted.
fieldMapOffByOne(c) ==
    [t \in {TypeOf(c.Fields[i]) : i \in 1..(Len(c.Fields) - 1)} |->
        Cardinality({i \in 1..(Len(c.Fields) - 1) : TypeOf(c.Fields[i]) = t})]

\* func (v *VCard) fieldMap: the number of fields of each dynamic type.
fieldMap(c) ==
    [t \in {TypeOf(c.Fields[i]) : i \in DOMAIN c.Fields} |->
        Cardinality({i \in DOMAIN c.Fields : TypeOf(c.Fields[i]) = t})]

\* The second loop of Validate, from the j-th required type on.
RECURSIVE CheckRequired(_, _, _)
CheckRequired(c, fmap, j) ==
    LET required == RequiredOf(c.Version)
    IN  IF j > Len(required) THEN Nil
        ELSE IF required[j] \notin DOMAIN fmap
             THEN Errorf(required[j] \o " is a required field for vCard version "
                         \o c.Version)
             ELSE CheckRequired(c, fmap, j + 1)

\* The first loop of Validate leaving after the field it starts at: only
\* that field's support is checked.
CheckFieldsFirstOnly(c, i) ==
    IF i > Len(c.Fields)
    THEN [err |-> CheckRequired(c, fieldMap(c), 1), formatted |-> i - 1, recv |-> c]
    ELSE IF Format(c.Fields[i], c.Version).err = ErrVersion
         THEN [err |-> Errorf(TypeOf(c.Fields[i])
                              \o " is an unsupported field for vCard version "
                              \o c.Version),
               formatted |-> i, recv |-> c]
         ELSE [err |-> CheckRequired(c, fieldMap(c), 1), formatted |-> i, recv |-> c]

\* The first loop of Validate, from field i on.  formatted counts the fields
\* Format was called on; recv is the receiver as the call leaves it.
RECURSIVE CheckFields(_, _)
CheckFields(c, i) ==
    IF i > Len(c.Fields)
    THEN [err |-> CheckRequired(c, fieldMap(c), 1), formatted |-> i - 1, recv |-> c]
    ELSE IF Format(c.Fields[i], c.Version).err = ErrVersion
         THEN [err |-> Errorf(TypeOf(c.Fields[i])
                              \o " is an unsupported field for vCard version "
                              \o c.Version),
               formatted |-> i, recv |-> c]
         ELSE CheckFields(c, i + 1)

\* Validate taking each field off v.Fields as it checks it.
ValidatePopsFields(c) ==
    [CheckFields(c, 1) EXCEPT !.recv = [c EXCEPT !.Fields = <<>>]]

\* Validate running its required-field loop before its field-support loop.
ValidateRequiredFirst(c) ==
    LET missing == CheckRequired(c, fieldMap(c), 1)
    IN  IF missing # Nil
        THEN [err |-> missing, formatted |-> 0, recv |-> c]
        ELSE CheckFields(c, 1)

\* func (v *VCard) Validate
Validate(c) == CheckFields(c, 1)

\* New validating the card before it looks the version up.
NewValidatesFirst(v, fields) ==
    LET c == [Version |-> v, Fields |-> fields]
        r == Validate(c)
    IN  IF r.err # Nil
        THEN [card |-> NoCard, err |-> r.err, validated |-> TRUE,
              formatted |-> r.formatted]
        ELSE IF v \notin DOMAIN versions
             THEN [card |-> NoCard, err |-> VersionError, validated |-> TRUE,
                   formatted |-> r.formatted]
             ELSE [card |-> r.recv, err |-> Nil, validated |-> TRUE,
                   formatted |-> r.formatted]

\* New returning the card it built together with the validation error.
NewKeepsCard(v, fields) ==
    IF v \notin DOMAIN versions
    THEN [card |-> NoCard, err |-> VersionError, validated |-> FALSE, formatted |-> 0]
    ELSE LET c == [Version |-> v, Fields |-> fields]
             r == Validate(c)
         IN  [card |-> r.recv, err |-> r.err, validated |-> TRUE,
              formatted |-> r.formatted]

\* func New(v string, fields ...FieldFormatter) (*VCard, error)
New(v, fields) ==
    IF v \notin DOMAIN versions
    THEN [card |-> NoCard, err |-> VersionError, validated |-> FALSE, formatted |-> 0]
    ELSE LET c == [Version |-> v, Fields |-> fields]
             r == Validate(c)
         IN  IF r.err # Nil
             THEN [card |-> NoCard, err |-> r.err, validated |-> TRUE,
                   formatted |-> r.formatted]
             ELSE [card |-> r.recv, err |-> Nil, validated |-> TRUE,
                   formatted |-> r.formatted]

\* The errors of the packages QR and QRPng call.
EncodeError == [type |-> "error", msg |-> "qr.Encode"]

ScaleError == [type |-> "error", msg |-> "barcode.Scale"]

PngError == [type |-> "error", msg |-> "png.Encode"]

\* QR generating the text before it validates.
QRGenerateFirst(c, encodes, scales) ==
    LET g == Generate(c)
        v == Validate(c)
    IN  IF g.err # Nil
        THEN [steps |-> <<"Generate">>, err |-> g.err, recv |-> c]
        ELSE IF v.err # Nil
        THEN [steps |-> <<"Generate", "Validate">>, err |-> v.err, recv |-> v.recv]
        ELSE IF ~encodes
        THEN [steps |-> <<"Generate", "Validate", "qr.Encode">>, err |-> EncodeError,
              recv |-> v.recv]
        ELSE [steps |-> <<"Generate", "Validate", "qr.Encode", "barcode.Scale">>,
              err |-> IF scales THEN Nil ELSE ScaleError, recv |-> v.recv]

\* func (v *VCard) QR(x, y int): the calls it makes, in order, and its
\* error; encodes and scales tell whether qr.Encode and barcode.Scale
\* succeed on the text and the size given.
QR(c, encodes, scales) ==
    LET v == Validate(c)
        g == Generate(v.recv)
    IN  IF v.err # Nil
        THEN [steps |-> <<"Validate">>, err |-> v.err, recv |-> v.recv]
        ELSE IF g.err # Nil
        THEN [steps |-> <<"Validate", "Generate">>, err |-> g.err, recv |-> v.recv]
        ELSE IF ~encodes
        THEN [steps |-> <<"Validate", "Generate", "qr.Encode">>, err |-> EncodeError,
              recv |-> v.recv]
        ELSE [steps |-> <<"Validate", "Generate", "qr.Encode", "barcode.Scale">>,
              err |-> IF scales THEN Nil ELSE ScaleError, recv |-> v.recv]

\* func (v *VCard) QRPng(x, y int, filename string): creates tells whether
\* os.Create makes the file, whose error is dropped, and writes whether
\* png.Encode can write to it; png.Encode fails on the nil file of a failed
\* os.Create.
QRPng(c, encodes, scales, creates, writes) ==
    LET q == QR(c, encodes, scales)
    IN  IF q.err # Nil
        THEN [steps |-> q.steps, err |-> q.err, recv |-> q.recv, created |-> FALSE]
        ELSE [steps |-> q.steps \o <<"os.Create", "png.Encode">>,
              err |-> IF creates /\ writes THEN Nil ELSE PngError,
              recv |-> q.recv, created |-> creates]

\* ------------------------------------------------------------------ inputs

VersionStrings == {"2.1", "3.0", "4.0", "2.0", ""}

Date1 == [Year |-> "2008", Month |-> "04", Day |-> "24", Clock |-> "195243", Zone |-> "Z"]

URL1 == [text |-> "http://www.example.com/dir_photos/my_photo.gif"]

N1 == [kind |-> "N", FamilyName |-> "Gump", GivenName |-> "Forrest",
       AdditionalNames |-> "", HonorificPrefixes |-> "Mr.", HonorificSuffixes |-> ""]

N2 == [kind |-> "N", FamilyName |-> "", GivenName |-> "", AdditionalNames |-> "",
       HonorificPrefixes |-> "", HonorificSuffixes |-> ""]

FN1 == [kind |-> "FN", FormattedName |-> "Forrest Gump"]

FN2 == [kind |-> "FN", FormattedName |-> ""]

Ptr(f) == [kind |-> "Ptr", Elem |-> f]

Agent(c, text) == [kind |-> "Agent", VCard |-> c, Text |-> text]

\* The cards an Agent field may point to: a valid 3.0 card; a 3.0 card
\* holding a Gender field, which Generate cannot render; a card of the
\* unknown version "2.0", whose field cannot render; and a 2.1 card without
\* fields, which lacks its required N and still renders.
AgentCards ==
    { [Version |-> "3.0", Fields |-> <<N1, FN1>>],
      [Version |-> "3.0", Fields |-> <<FN1, [kind |-> "Gender", Val |-> "F"]>>],
      [Version |-> "2.0", Fields |-> <<FN1>>],
      [Version |-> "2.1", Fields |-> <<>>],
      [Version |-> "4.0", Fields |-> <<FN1, [kind |-> "Gender", Val |-> "F"]>>] }

\* One value of every field type, two of the required ones, pointers to the
\* required ones, and an Agent of each shape.
FieldPool ==
    { N1, N2, FN1, FN2, Ptr(FN1), Ptr(N1),
      [kind |-> "Org", Name |-> "Bubba Gump Shrimp Co.", Units |-> <<"Sales", "EU">>],
      [kind |-> "Title", Title |-> "Shrimp Man"],
      [kind |-> "Role", Role |-> "Captain"],
      [kind |-> "Photo", Type |-> "image/gif", URI |-> URL1, Base64Data |-> ""],
      [kind |-> "Tel", Types |-> <<"work", "voice">>, Number |-> "+1-111-555-1212"],
      [kind |-> "Adr", Types |-> <<>>, PostOfficeBox |-> "", ExtendedAddress |-> "",
       StreetAddress |-> "100 Waters Edge", Locality |-> "Baytown", Region |-> "LA",
       PostalCode |-> "30314", CountryName |-> "United States of America"],
      [kind |-> "Email", Types |-> <<>>, Email |-> "forrestgump@example.com"],
      [kind |-> "Rev", Timestamp |-> Date1, TimeFormat |-> ""],
      Agent(NoCard, "Test Person"),
      [kind |-> "Anniversary", Date |-> Date1, TimeFormat |-> ""],
      [kind |-> "Bday", Timestamp |-> Date1, TimeFormat |-> "2006-01-02"],
      [kind |-> "FbURL", URL |-> URL1],
      [kind |-> "Gender", Val |-> "F"],
      [kind |-> "Geo", Lat |-> 39950000, Long |-> -75166700],
      [kind |-> "IMPP", Platform |-> "XMPP", Handle |-> "gump@example.com"],
      [kind |-> "Key", Type |-> "application/pgp-keys", URI |-> URL1, Data |-> "",
       Binary |-> FALSE],
      [kind |-> "Kind", Text |-> "INDIVIDUAL"] }
    \cup { Agent(c, "") : c \in AgentCards }

\* The field lists of at most MaxFields fields.
FieldLists == UNION { [1..n -> FieldPool] : n \in 0..MaxFields }

NoCall == [op |-> "none", version |-> "", out |-> "", err |-> Nil,
           validated |-> FALSE, formatted |-> 0, steps |-> <<>>, created |-> FALSE]

\* ------------------------------------------------------------------ actions

Init ==
    /\ versions = VersionsTable
    /\ inVersion \in VersionStrings
    /\ inFields \in FieldLists
    /\ card = NoCard
    /\ origin = "none"
    /\ last = NoCall
    /\ procs = <<>>
    /\ heap = <<>>
    /\ stack = <<>>

\* card, err := vcard.New(inVersion, inFields...)
CallNew ==
    /\ origin = "none"
    /\ LET r == New(inVersion, inFields)
       IN  /\ card' = r.card
           /\ last' = [NoCall EXCEPT !.op = "New", !.err = r.err,
                                     !.validated = r.validated,
                                     !.formatted = r.formatted]
    /\ origin' = "New"
    /\ UNCHANGED <<versions, inVersion, inFields, procs, heap, stack>>

\* card := &vcard.VCard{Version: inVersion, Fields: inFields}
MakeLiteral ==
    /\ origin = "none"
    /\ card' = [Version |-> inVersion, Fields |-> inFields]
    /\ origin' = "Literal"
    /\ last' = [NoCall EXCEPT !.op = "Literal"]
    /\ UNCHANGED <<versions, inVersion, inFields, procs, heap, stack>>

\* err := card.Validate()
CallValidate ==
    /\ card # NoCard
    /\ LET r == Validate(card)
       IN  /\ card' = r.recv
           /\ last' = [NoCall EXCEPT !.op = "Validate", !.err = r.err,
                                     !.validated = TRUE,
                                     !.formatted = r.formatted]
    /\ UNCHANGED <<versions, inVersion, inFields, origin, procs, heap, stack>>

\* out, err := card.Generate()
CallGenerate ==
    /\ card # NoCard
    /\ LET r == Generate(card)
       IN  last' = [NoCall EXCEPT !.op = "Generate", !.out = r.out, !.err = r.err]
    /\ UNCHANGED <<versions, inVersion, inFields, card, origin, procs, heap, stack>>

Next == CallNew \/ MakeLiteral \/ CallValidate \/ CallGenerate

Spec == Init /\ [][Next]_vars

\* The Photo values: with and without a type, inline data and a URL.
PhotoValues ==
    { [kind |-> "Photo", Type |-> t, URI |-> u, Base64Data |-> d] :
        t \in {"", "JPEG"}, u \in {NilURL, URL1}, d \in {"", "MIICajCC"} }

\* The Key values: with and without a type, data and a URL, binary or text.
KeyValues ==
    { [kind |-> "Key", Type |-> t[1], URI |-> u, Data |-> d, Binary |-> t[2]] :
        t \in {"", "PGP"} \X BOOLEAN, u \in {NilURL, URL1}, d \in {"", "MIICajCC"} }

\* The type lists of a Tel or an Adr: none, one, several, and empty strings.
TypeLists == { <<>>, <<"">>, <<"home">>, <<"work", "voice">>, <<"", "">> }

TelValues ==
    { [kind |-> "Tel", Types |-> ts, Number |-> "+1-111-555-1212"] : ts \in TypeLists }

AdrValues ==
    { [kind |-> "Adr", Types |-> ts, PostOfficeBox |-> "", ExtendedAddress |-> "",
       StreetAddress |-> "100 Waters Edge", Locality |-> "Baytown", Region |-> "LA",
       PostalCode |-> "30314", CountryName |-> "United States of America"] :
        ts \in TypeLists }

\* The Agent values holding both a card and a text.
AgentValues == { Agent(c, "Test Person") : c \in AgentCards }

\* The fields Format is called on by itself.
FormatPool ==
    FieldPool \cup PhotoValues \cup KeyValues \cup TelValues \cup AdrValues
              \cup AgentValues

\* out, err := f.Format(inVersion), for a single field f = inFields[1]
InitFormat ==
    /\ versions = VersionsTable
    /\ inVersion \in VersionStrings
    /\ inFields \in {<<f>> : f \in FormatPool}
    /\ card = NoCard
    /\ origin = "none"
    /\ last = NoCall
    /\ procs = <<>>
    /\ heap = <<>>
    /\ stack = <<>>

CallFormat ==
    /\ last.op = "none"
    /\ LET r == Format(inFields[1], inVersion)
       IN  last' = [NoCall EXCEPT !.op = "Format", !.version = inVersion,
                                  !.out = r.out, !.err = r.err]
    /\ UNCHANGED <<versions, inVersion, inFields, card, origin, procs, heap, stack>>

NextFormat == CallFormat

SpecFormat == InitFormat /\ [][NextFormat]_vars

\* ------------------------------------------------------------- QR codes

\* The fields of the cards QR and QRPng are called on: the required kinds,
\* a pointer to one, a field 4.0 alone renders, and Agents whose nested card
\* generates and fails.
QRPool ==
    { N1, FN1, Ptr(FN1), [kind |-> "Gender", Val |-> "F"],
      Agent([Version |-> "3.0", Fields |-> <<N1, FN1>>], ""),
      Agent([Version |-> "2.0", Fields |-> <<FN1>>], "") }

QRLists == UNION { [1..n -> QRPool] : n \in 0..MaxFields }

InitQR ==
    /\ versions = VersionsTable
    /\ inVersion \in VersionStrings
    /\ inFields \in QRLists
    /\ card = NoCard
    /\ origin = "none"
    /\ last = NoCall
    /\ procs = <<>>
    /\ heap = <<>>
    /\ stack = <<>>

\* code, err := card.QR(x, y)
CallQR ==
    /\ card # NoCard
    /\ \E encodes, scales \in BOOLEAN :
          LET r == QR(card, encodes, scales)
          IN  /\ card' = r.recv
              /\ last' = [NoCall EXCEPT !.op = "QR", !.err = r.err, !.steps = r.steps]
    /\ UNCHANGED <<versions, inVersion, inFields, origin, procs, heap, stack>>

\* err := card.QRPng(x, y, filename)
CallQRPng ==
    /\ card # NoCard
    /\ \E encodes, scales, creates, writes \in BOOLEAN :
          LET r == QRPng(card, encodes, scales, creates, writes)
          IN  /\ card' = r.recv
              /\ last' = [NoCall EXCEPT !.op = "QRPng", !.err = r.err,
                                        !.steps = r.steps, !.created = r.created]
    /\ UNCHANGED <<versions, inVersion, inFields, origin, procs, heap, stack>>

NextQR == CallNew \/ MakeLiteral \/ CallQR \/ CallQRPng

SpecQR == InitQR /\ [][NextQR]_vars

\* ------------------------------------------------------- concurrent calls

\* The goroutines that call at the same time.
NumProcs == 2

Procs == 1..NumProcs

\* The fields and versions the concurrent calls are made with.
ConcPool ==
    { N1, FN1, [kind |-> "Gender", Val |-> "F"],
      Agent([Version |-> "3.0", Fields |-> <<N1, FN1>>], "") }

ConcVersions == {"2.1", "3.0", "4.0", "2.0"}

ConcLists == UNION { [1..n -> ConcPool] : n \in 0..MaxFields }

\* A goroutine that has not called yet.
Idle == [op |-> "none", pc |-> "idle", c |-> NoCard, i |-> 0, buf |-> "",
         out |-> "", err |-> Nil, ret |-> NoCard]

\* The index expression versions[v] reading a missing key and leaving an
\* entry for it in the map.
ReadVersionsInserting(reg, v) ==
    [ok  |-> v \in DOMAIN reg,
     reg |-> IF v \in DOMAIN reg THEN reg
             ELSE [w \in DOMAIN reg \cup {v} |->
                      IF w = v THEN [required |-> <<>>] ELSE reg[w]]]

\* The index expression versions[v]: whether the key is there, and the map
\* after the read, which is the map before it.
ReadVersions(reg, v) == [ok |-> v \in DOMAIN reg, reg |-> reg]

\* The shared card is built before the goroutines start.
InitConc ==
    /\ versions = VersionsTable
    /\ inVersion \in ConcVersions
    /\ inFields \in ConcLists
    /\ card = [Version |-> inVersion, Fields |-> inFields]
    /\ origin = "Literal"
    /\ last = NoCall
    /\ procs = [p \in Procs |-> Idle]
    /\ heap = <<>>
    /\ stack = <<>>

\* Goroutine p enters New(inVersion, inFields...), card.Validate() or
\* card.Generate().
Begin(p) ==
    /\ procs[p].pc = "idle"
    /\ \E op \in {"New", "Validate", "Generate"} :
          procs' = [procs EXCEPT ![p] =
                      CASE op = "New" -> [Idle EXCEPT !.op = op, !.pc = "lookup"]
                        [] op = "Validate" ->
                             [Idle EXCEPT !.op = op, !.pc = "fields", !.c = card, !.i = 1]
                        [] op = "Generate" ->
                             [Idle EXCEPT !.op = op, !.pc = "fields", !.c = card, !.i = 1,
                                          !.buf = "BEGIN:VCARD\nVERSION:" \o card.Version]]
    /\ UNCHANGED <<versions, inVersion, inFields, card, origin, last, heap, stack>>

\* New: _, ok := versions[v], then the card literal.
StepLookup(p) ==
    /\ procs[p].pc = "lookup"
    /\ LET l == ReadVersions(versions, inVersion)
       IN  /\ versions' = l.reg
           /\ procs' = [procs EXCEPT ![p] =
                 IF l.ok
                 THEN [@ EXCEPT !.pc = "fields", !.i = 1,
                                !.c = [Version |-> inVersion, Fields |-> inFields]]
                 ELSE [@ EXCEPT !.pc = "done", !.err = VersionError]]
    /\ UNCHANGED <<inVersion, inFields, card, origin, last, heap, stack>>

\* One turn of the loop over v.Fields, in Validate (also under New) and in
\* Generate.
StepField(p) ==
    /\ procs[p].pc = "fields"
    /\ procs[p].i <= Len(procs[p].c.Fields)
    /\ LET q == procs[p]
           r == Format(q.c.Fields[q.i], q.c.Version)
       IN  procs' = [procs EXCEPT ![p] =
             IF q.op = "Generate"
             THEN IF r.err # Nil
                  THEN [@ EXCEPT !.pc = "done", !.err = r.err]
                  ELSE [@ EXCEPT !.i = q.i + 1, !.buf = q.buf \o "\n" \o r.out]
             ELSE IF r.err = ErrVersion
                  THEN [@ EXCEPT !.pc = "done",
                          !.err = Errorf(TypeOf(q.c.Fields[q.i])
                                         \o " is an unsupported field for vCard version "
                                         \o q.c.Version)]
                  ELSE [@ EXCEPT !.i = q.i + 1]]
    /\ UNCHANGED <<versions, inVersion, inFields, card, origin, last, heap, stack>>

\* After the loop: Generate writes END:VCARD and returns; Validate builds
\* the field map, reads versions[v.Version].required and returns, and New
\* returns the card when Validate returned nil.
StepReturn(p) ==
    /\ procs[p].pc = "fields"
    /\ procs[p].i > Len(procs[p].c.Fields)
    /\ LET q == procs[p]
           l == ReadVersions(versions, q.c.Version)
           e == CheckRequired(q.c, fieldMap(q.c), 1)
       IN  IF q.op = "Generate"
           THEN /\ procs' = [procs EXCEPT ![p] =
                               [@ EXCEPT !.pc = "done", !.out = q.buf \o "\nEND:VCARD"]]
                /\ UNCHANGED versions
           ELSE /\ versions' = l.reg
                /\ procs' = [procs EXCEPT ![p] =
                      [@ EXCEPT !.pc = "done", !.err = e,
                                !.ret = IF q.op = "New" /\ e = Nil THEN q.c ELSE NoCard]]
    /\ UNCHANGED <<inVersion, inFields, card, origin, last, heap, stack>>

NextConc == \E p \in Procs : Begin(p) \/ StepLookup(p) \/ StepField(p) \/ StepReturn(p)

SpecConc == InitConc /\ [][NextConc]_vars

\* ------------------------------------------- cards that point to cards

\* The frames a goroutine's stack holds; a call that needs one more ends the
\* program with the runtime's fatal stack overflow.  It is more than the
\* cards there are, so that only unbounded recursion reaches it.
MaxDepth == 4

\* The addresses of the cards on the heap.
CardIds == {1, 2}

\* A non-nil *VCard.
Ref(id) == [ref |-> id]

\* The fields of the cards on the heap: an FN and Agents pointing to a card.
HeapFields == {FN1} \cup { Agent(Ref(id), "") : id \in CardIds }

HeapCards ==
    { [Version |-> v, Fields |-> fs] :
        v \in {"3.0", "4.0"},
        fs \in UNION { [1..n -> HeapFields] : n \in 0..MaxFields } }

\* fatal error: stack overflow, which no caller receives.
StackOverflow == [type |-> "fatal", msg |-> "stack overflow"]

\* The frame of a call of op on the card at address id.
Frame(op, id) ==
    [op |-> op, id |-> id, i |-> 1,
     buf |-> IF op = "Generate" THEN "BEGIN:VCARD\nVERSION:" \o heap[id].Version ELSE ""]

Top == stack[Len(stack)]

Pop(stk) == SubSeq(stk, 1, Len(stk) - 1)

\* The innermost call stands at an Agent field whose Format calls Generate
\* on the card it points to.
AtNestedCall ==
    /\ stack # <<>>
    /\ last.err # StackOverflow
    /\ Top.i <= Len(heap[Top.id].Fields)
    /\ LET f == heap[Top.id].Fields[Top.i]
       IN  /\ f.kind = "Agent"
           /\ f.VCard # NoCard
           /\ heap[Top.id].Version \in {"2.1", "3.0"}

\* The stack and the outcome once Format of the innermost frame's current
\* field has returned r: Generate appends the line or returns the error, which
\* the Agent.Format that called it hands to the frame below; Validate returns
\* on ErrVersion and goes on otherwise.
RECURSIVE Resolve(_, _)
Resolve(stk, r) ==
    LET t == stk[Len(stk)]
        c == heap[t.id]
    IN  IF t.op = "Validate"
        THEN IF r.err = ErrVersion
             THEN [stack |-> <<>>, done |-> TRUE, out |-> "",
                   err |-> Errorf(TypeOf(c.Fields[t.i])
                                  \o " is an unsupported field for vCard version "
                                  \o c.Version)]
             ELSE [stack |-> [stk EXCEPT ![Len(stk)].i = t.i + 1],
                   done |-> FALSE, out |-> "", err |-> Nil]
        ELSE IF r.err = Nil
             THEN [stack |-> [stk EXCEPT ![Len(stk)].i = t.i + 1,
                                         ![Len(stk)].buf = t.buf \o "\n" \o r.out],
                   done |-> FALSE, out |-> "", err |-> Nil]
             ELSE IF Len(stk) = 1
                  THEN [stack |-> <<>>, done |-> TRUE, out |-> "", err |-> r.err]
                  ELSE Resolve(Pop(stk), Fail(r.err))

\* The variables after a step that leaves the stack and outcome x.
Leave(x) ==
    /\ stack' = x.stack
    /\ last' = IF x.done THEN [last EXCEPT !.out = x.out, !.err = x.err] ELSE last

InitHeap ==
    /\ versions = VersionsTable
    /\ inVersion = ""
    /\ inFields = <<>>
    /\ card = NoCard
    /\ origin = "none"
    /\ last = NoCall
    /\ procs = <<>>
    /\ heap \in [CardIds -> HeapCards]
    /\ stack = <<>>

\* heap[id].Validate() or heap[id].Generate() is called.
EnterCall ==
    /\ last.op = "none"
    /\ \E op \in {"Validate", "Generate"}, id \in CardIds :
          /\ stack' = <<Frame(op, id)>>
          /\ last' = [NoCall EXCEPT !.op = op]
    /\ UNCHANGED <<versions, inVersion, inFields, card, origin, procs, heap>>

\* Agent.Format calls f.VCard.Generate(): one more frame.
Descend ==
    /\ AtNestedCall
    /\ Len(stack) < MaxDepth
    /\ stack' = Append(stack, Frame("Generate", heap[Top.id].Fields[Top.i].VCard.ref))
    /\ UNCHANGED <<versions, inVersion, inFields, card, origin, last, procs, heap>>

\* The same call with the stack used up.
Overflow ==
    /\ AtNestedCall
    /\ Len(stack) = MaxDepth
    /\ last' = [last EXCEPT !.err = StackOverflow]
    /\ UNCHANGED <<versions, inVersion, inFields, card, origin, procs, heap, stack>>

\* Format of a field that calls no Generate.
FormatField ==
    /\ stack # <<>>
    /\ last.err # StackOverflow
    /\ Top.i <= Len(heap[Top.id].Fields)
    /\ ~AtNestedCall
    /\ Leave(Resolve(stack, Format(heap[Top.id].Fields[Top.i], heap[Top.id].Version)))
    /\ UNCHANGED <<versions, inVersion, inFields, card, origin, procs, heap>>

\* The innermost call is past its loop: Generate writes END:VCARD and
\* returns the buffer, to the caller or to the Agent.Format that called it;
\* Validate checks the required types and returns.
ReturnCall ==
    /\ stack # <<>>
    /\ last.err # StackOverflow
    /\ Top.i > Len(heap[Top.id].Fields)
    /\ IF Top.op = "Validate"
       THEN Leave([stack |-> <<>>, done |-> TRUE, out |-> "",
                   err |-> CheckRequired(heap[Top.id], fieldMap(heap[Top.id]), 1)])
       ELSE IF Len(stack) = 1
            THEN Leave([stack |-> <<>>, done |-> TRUE,
                        out |-> Top.buf \o "\nEND:VCARD", err |-> Nil])
            ELSE Leave(Resolve(Pop(stack), Ok("AGENT:" \o Top.buf \o "\nEND:VCARD")))
    /\ UNCHANGED <<versions, inVersion, inFields, card, origin, procs, heap>>

NextHeap == EnterCall \/ Descend \/ Overflow \/ FormatField \/ ReturnCall

SpecHeap == InitHeap /\ [][NextHeap]_vars

\* ------------------------------------------------- vocabulary of the claims

\* The versions the specification supports.
Supported == {"2.1", "3.0", "4.0"}

\* The kinds each version requires, as the specification lists them.
RequiredKinds(v) ==
    CASE v = "2.1" -> {"vcard.N"}
      [] v = "3.0" -> {"vcard.N", "vcard.FN"}
      [] v = "4.0" -> {"vcard.FN"}
      [] OTHER     -> {}

\* The versions each kind renders for, as the specification's table lists them.
SpecVersionsOf(kind) ==
    CASE kind = "Agent"                              -> {"2.1", "3.0"}
      [] kind \in {"Anniversary", "FbURL", "Gender", "Kind"} -> {"4.0"}
      [] kind = "IMPP"                               -> {"3.0", "4.0"}
      [] OTHER                                       -> {"2.1", "3.0", "4.0"}

KindOf(f) == IF f.kind = "Ptr" THEN f.Elem.kind ELSE f.kind

UnsupportedError(type, v) ==
    Errorf(type \o " is an unsupported field for vCard version " \o v)

MissingError(type, v) ==
    Errorf(type \o " is a required field for vCard version " \o v)

\* Every field of c renders for c's version.
AllFieldsSupport(c) ==
    \A i \in DOMAIN c.Fields : Format(c.Fields[i], c.Version).err = Nil

\* The required kinds that do not occur among fields.
MissingKinds(v, fields) ==
    {k \in RequiredKinds(v) : \A i \in DOMAIN fields : TypeOf(fields[i]) # k}

\* fields without its i-th element.
Without(fields, i) == SubSeq(fields, 1, i - 1) \o SubSeq(fields, i + 1, Len(fields))

\* The card New builds from the caller's arguments.
Built == [Version |-> inVersion, Fields |-> inFields]

\* The index of the first "\n" of s, 0 when it has none.
RECURSIVE IndexNewline(_, _)
IndexNewline(s, i) ==
    IF i > Len(s) THEN 0
    ELSE IF SubSeq(s, i, i) = "\n" THEN i
    ELSE IndexNewline(s, i + 1)

\* s split on the line separator "\n".
RECURSIVE SplitLines(_)
SplitLines(s) ==
    LET i == IndexNewline(s, 1)
    IN  IF i = 0 THEN <<s>>
        ELSE <<SubSeq(s, 1, i - 1)>> \o SplitLines(SubSeq(s, i + 1, Len(s)))

\* What each field of c renders for c's version, in input order.
Renderings(c) == [i \in DOMAIN c.Fields |-> Format(c.Fields[i], c.Version).out]

\* The document's parts: the two header lines, the renderings, the footer.
DocumentParts(c) ==
    <<"BEGIN:VCARD", "VERSION:" \o c.Version>> \o Renderings(c) \o <<"END:VCARD">>

RECURSIVE SumLines(_)
SumLines(parts) ==
    IF Len(parts) = 0 THEN 0
    ELSE Len(SplitLines(parts[1])) + SumLines(Tail(parts))

\* The lowest index whose field reports ErrVersion for c's version, 0 when
\* none does.
FirstUnsupported(c) ==
    LET bad == {i \in DOMAIN c.Fields : Format(c.Fields[i], c.Version).err = ErrVersion}
    IN  IF bad = {} THEN 0 ELSE CHOOSE i \in bad : \A j \in bad : i <= j

\* ------------------------------------------------------------------ claims

\* C1: for every version string other than "2.1", "3.0" and "4.0" and every
\* field list, New returns a nil card and a VersionError; no field is
\* formatted and Validate is not run.
C1_UnknownVersionRejected ==
    (last.op = "New" /\ inVersion \notin Supported)
        => /\ card = NoCard
           /\ last.err = VersionError
           /\ last.formatted = 0
           /\ ~last.validated

\* New was called with an unknown version and a field list that is valid
\* for 3.0.
C1_Witness ==
    /\ last.op = "New"
    /\ inVersion = "2.0"
    /\ inFields = <<N1, FN1>>
    /\ last.err = VersionError

\* C2: New returns a non-nil card exactly when the version is supported and
\* Validate on the built card returns nil; otherwise it returns a nil card
\* with the VersionError or the unchanged Validate error.  Exactly one of
\* the two results is non-nil.
C2_CardIffValid ==
    last.op = "New"
        => LET valid == inVersion \in Supported /\ Validate(Built).err = Nil
           IN  /\ (card # NoCard) <=> valid
               /\ (card # NoCard) <=> (last.err = Nil)
               /\ valid => card = Built
               /\ inVersion \notin Supported => last.err = VersionError
               /\ (inVersion \in Supported /\ ~valid)
                      => last.err = Validate(Built).err

\* New was called with a supported version and a list that fails validation.
C2_Witness ==
    /\ last.op = "New"
    /\ inVersion = "4.0"
    /\ inFields = <<N1>>
    /\ card = NoCard
    /\ last.err = MissingError("vcard.FN", "4.0")

\* C3: for a supported version and a field list whose fields all support it,
\* Validate fails with a missing-required-field error naming a missing kind
\* and the version when a required kind does not occur; and a list obtained
\* by adding one instance of a required kind, at any position, to a list
\* whose only defect was the absence of that kind makes Validate return nil.
C3_RequiredKinds ==
    (last.op = "Validate" /\ card.Version \in Supported /\ AllFieldsSupport(card))
        => /\ MissingKinds(card.Version, card.Fields) # {}
                => \E k \in MissingKinds(card.Version, card.Fields) :
                       last.err = MissingError(k, card.Version)
           /\ (\E i \in DOMAIN card.Fields :
                   MissingKinds(card.Version, Without(card.Fields, i))
                       = {TypeOf(card.Fields[i])})
                => last.err = Nil

\* Validate ran on a 3.0 card of two fields, the second being the FN that
\* the first field alone lacked.
C3_Witness ==
    /\ last.op = "Validate"
    /\ card # NoCard
    /\ card.Version = "3.0"
    /\ card.Fields = <<N2, FN2>>
    /\ MissingKinds("3.0", <<N2>>) = {"vcard.FN"}
    /\ last.err = Nil

\* C4: for a supported version and a field list that contains, at any index,
\* a field whose kind does not support the version, Validate fails with an
\* unsupported-field error, whatever the other fields are.
C4_UnsupportedKindFails ==
    (/\ last.op = "Validate"
     /\ card.Version \in Supported
     /\ \E i \in DOMAIN card.Fields :
            card.Version \notin SpecVersionsOf(KindOf(card.Fields[i])))
        => \E j \in DOMAIN card.Fields :
               last.err = UnsupportedError(TypeOf(card.Fields[j]), card.Version)

\* Validate ran on a 2.1 card that holds its required kind and, at the last
\* index, a Gender.
C4_Witness ==
    /\ last.op = "Validate"
    /\ card # NoCard
    /\ card.Version = "2.1"
    /\ Len(card.Fields) = 2
    /\ card.Fields[1] = N1
    /\ card.Fields[2].kind = "Gender"
    /\ last.err = UnsupportedError("vcard.Gender", "2.1")

\* C5: a card that fails validation never produces output: for every VCard
\* value on which Validate returns an error, Generate returns no text.
C5_InvalidNeverGenerates ==
    (last.op = "Generate" /\ Validate(card).err # Nil) => last.out = ""

\* C6 as stated: for every card returned by New, Generate's text split on
\* "\n" is BEGIN:VCARD, VERSION:<v>, one line per field equal to the field's
\* Format result, in input order, and END:VCARD: len(Fields)+3 lines, also
\* when a field is an Agent holding a nested card.
C6_OneLinePerField ==
    (last.op = "Generate" /\ origin = "New")
        => /\ last.err = Nil
           /\ SplitLines(last.out) = DocumentParts(card)
           /\ Len(SplitLines(last.out)) = Len(card.Fields) + 3

\* C6 as amended: for every card returned by New, Generate returns a nil
\* error and the "\n"-join of BEGIN:VCARD, VERSION:<v>, each field's Format
\* result in input order (duplicates kept) and END:VCARD, with no trailing
\* separator; split on "\n" it has 3 lines plus the lines of every
\* rendering, which is len(Fields)+3 lines, one per field, exactly when no
\* rendering holds a "\n".
C6_JoinedRenderings ==
    (last.op = "Generate" /\ origin = "New")
        => /\ last.err = Nil
           /\ last.out = Join(DocumentParts(card), "\n")
           /\ Len(SplitLines(last.out)) = 3 + SumLines(Renderings(card))
           /\ (\A i \in DOMAIN card.Fields : IndexNewline(Renderings(card)[i], 1) = 0)
                  <=> SplitLines(last.out) = DocumentParts(card)

\* Generate ran on a card New returned whose second field is an Agent
\* holding a nested card.
C6_Witness ==
    /\ last.op = "Generate"
    /\ origin = "New"
    /\ card # NoCard
    /\ Len(card.Fields) = 2
    /\ card.Fields[2].kind = "Agent"
    /\ card.Fields[2].VCard # NoCard
    /\ Len(SplitLines(last.out)) > Len(card.Fields) + 3

\* C7: Generate produces no partial output: it returns the complete document
\* with a nil error, or the empty string with a non-nil error; when the k-th
\* field's Format fails, none of the lines rendered before k is returned.
C7_NoPartialOutput ==
    last.op = "Generate"
        => IF AllFieldsSupport(card)
           THEN last.err = Nil /\ last.out = Join(DocumentParts(card), "\n")
           ELSE last.err # Nil /\ last.out = ""

\* Generate ran on a card whose first field renders and whose second fails.
C7_Witness ==
    /\ last.op = "Generate"
    /\ card # NoCard
    /\ Len(card.Fields) = 2
    /\ Format(card.Fields[1], card.Version).err = Nil
    /\ Format(card.Fields[2], card.Version).err # Nil
    /\ last.out = ""
    /\ last.err = ErrVersion

\* C8: Validate is a pure check: a call leaves the card's Version and Fields
\* and the version registry unchanged, a call that follows a Validate call
\* returns the same result, and Validate on a card returned by New returns
\* nil.
C8_ValidatePure ==
    [][CallValidate
          => /\ card' = card
             /\ versions' = versions
             /\ last.op = "Validate" => last'.err = last.err
             /\ origin = "New" => last'.err = Nil]_vars

\* Validate ran on a two-field card that New returned.
C8_Witness ==
    /\ last.op = "Validate"
    /\ origin = "New"
    /\ card # NoCard
    /\ Len(card.Fields) = 2
    /\ last.err = Nil

\* C9: Validate checks field support before required fields: when some field
\* reports the version unsupported the error is the unsupported-field error
\* naming the field of the lowest such index, whether or not a required kind
\* is missing; and a 3.0 card with neither N nor FN is reported, on every
\* call, with the same kind (N, the first the registry lists).
C9_SupportBeforeRequired ==
    last.op = "Validate"
        => /\ FirstUnsupported(card) # 0
                => last.err = UnsupportedError(TypeOf(card.Fields[FirstUnsupported(card)]),
                                               card.Version)
           /\ (/\ FirstUnsupported(card) = 0
               /\ card.Version = "3.0"
               /\ MissingKinds("3.0", card.Fields) = {"vcard.N", "vcard.FN"})
                => last.err = MissingError("vcard.N", "3.0")

\* Validate ran on a 3.0 card with two unsupported fields of different types
\* and no required kind.
C9_Witness ==
    /\ last.op = "Validate"
    /\ card # NoCard
    /\ card.Version = "3.0"
    /\ Len(card.Fields) = 2
    /\ card.Fields[1].kind = "Gender"
    /\ card.Fields[2].kind = "Anniversary"
    /\ last.err = UnsupportedError("vcard.Gender", "3.0")

\* C10 as stated: each field kind's Format(v) returns a line and a nil error
\* exactly for the versions the specification's table lists for it, and for
\* every other version string returns the empty string and ErrVersion.
C10_SupportTable ==
    last.op = "Format"
        => IF inVersion \in SpecVersionsOf(KindOf(inFields[1]))
           THEN last.err = Nil /\ last.out # ""
           ELSE last.err = ErrVersion /\ last.out = ""

\* C10 as amended: the same, except that an Agent holding a nested card
\* returns a line on 2.1 and 3.0 only when the nested card's Generate
\* succeeds, and otherwise returns the empty string and Generate's error.
C10_SupportTableButNestedAgent ==
    last.op = "Format"
        => LET f == inFields[1]
               nested == KindOf(f) = "Agent" /\ f.VCard # NoCard
           IN  IF inVersion \notin SpecVersionsOf(KindOf(f))
               THEN last.err = ErrVersion /\ last.out = ""
               ELSE IF nested /\ Generate(f.VCard).err # Nil
                    THEN last.err = Generate(f.VCard).err /\ last.out = ""
                    ELSE last.err = Nil /\ last.out # ""

\* Format ran on a Gender field for the unknown version "2.0".
C10_Witness ==
    /\ last.op = "Format"
    /\ inFields[1].kind = "Gender"
    /\ inVersion = "2.0"
    /\ last.err = ErrVersion
    /\ last.out = ""

\* The media line the specification gives for property prop on version v:
\* the optional type parameter, then the inline data or else the URL.
MediaLine(prop, v, tp, data, uri) ==
    LET inline == data # ""
        param(prefix) == IF tp = "" THEN "" ELSE prefix \o tp
    IN  CASE v = "2.1" ->
               prop \o param(";")
                    \o (IF inline THEN ";ENCODING=BASE64:" \o data ELSE ":" \o uri)
          [] v = "3.0" ->
               prop \o param(";TYPE=")
                    \o (IF inline THEN ";ENCODING=b:" \o data ELSE ";VALUE=uri:" \o uri)
          [] v = "4.0" ->
               IF inline
               THEN prop \o ":data:" \o tp \o ";base64," \o data
               ELSE prop \o param(";MEDIATYPE=") \o ":" \o uri

\* C11: Photo.Format renders 2.1 as PHOTO[;type] then ;ENCODING=BASE64:data
\* or :uri, 3.0 as PHOTO[;TYPE=type] then ;ENCODING=b:data or ;VALUE=uri:uri,
\* and 4.0 as PHOTO:data:type;base64,data or PHOTO[;MEDIATYPE=type]:uri, with
\* a nil error, for every combination of type given or not and inline data
\* or URL.
C11_PhotoEncoding ==
    (last.op = "Format" /\ inFields[1].kind = "Photo" /\ inVersion \in Supported)
        => LET f == inFields[1]
           IN  /\ last.err = Nil
               /\ last.out = MediaLine("PHOTO", inVersion, f.Type, f.Base64Data,
                                       URLString(f.URI))

\* Format ran on a Photo without a type holding a URL, for 3.0.
C11_Witness ==
    /\ last.op = "Format"
    /\ inVersion = "3.0"
    /\ inFields[1] = [kind |-> "Photo", Type |-> "", URI |-> URL1, Base64Data |-> ""]
    /\ last.out = "PHOTO;VALUE=uri:http://www.example.com/dir_photos/my_photo.gif"

\* The text s holds sub as a substring.
Contains(s, sub) ==
    \E i \in 1..(Len(s) - Len(sub) + 1) : SubSeq(s, i, i + Len(sub) - 1) = sub

\* A line holding an empty parameter: a ";" directly before ":" or ";", or a
\* TYPE= or MEDIATYPE= without a value.
HasEmptyParameter(line) ==
    \E sub \in {";:", ";;", "TYPE=:", "TYPE=;"} : Contains(line, sub)

\* C12: a Photo or a Key whose Type is empty renders, on every supported
\* version, a line without an empty parameter: no ";" directly before ":" or
\* ";", and no TYPE= or MEDIATYPE= with an empty value.
C12_NoEmptyParameter ==
    (/\ last.op = "Format"
     /\ inFields[1].kind \in {"Photo", "Key"}
     /\ inFields[1].Type = ""
     /\ inVersion \in Supported)
        => last.err = Nil /\ ~HasEmptyParameter(last.out)

\* What Photo.Format returns for the type, URL and data of key f, with the
\* leading PHOTO of the line replaced by KEY.
PhotoAsKey(f, v) ==
    LET r == FormatPhoto([kind |-> "Photo", Type |-> f.Type, URI |-> f.URI,
                          Base64Data |-> f.Data], v)
    IN  IF r.err # Nil THEN r ELSE Ok("KEY" \o SubSeq(r.out, 6, Len(r.out)))

\* C13 as stated: for every version, type, URL and data, Key.Format returns
\* what Photo.Format returns with PHOTO replaced by KEY, whatever the Binary
\* flag of the key.
C13_KeyAsPhoto ==
    (last.op = "Format" /\ inFields[1].kind = "Key")
        => LET r == PhotoAsKey(inFields[1], inVersion)
           IN  last.out = r.out /\ last.err = r.err

\* C13 as amended: for a key with a type, Key.Format returns what
\* Photo.Format returns with PHOTO replaced by KEY exactly when the version
\* is unsupported, or the key holds data and is Binary, or it holds no data
\* and the version is not 3.0; a 3.0 key without data is KEY;TYPE=type:uri.
C13_KeyAsPhotoWhenBinaryOrURL ==
    (last.op = "Format" /\ inFields[1].kind = "Key" /\ inFields[1].Type # "")
        => LET f == inFields[1]
               r == PhotoAsKey(f, inVersion)
           IN  /\ (last.out = r.out /\ last.err = r.err)
                     <=> \/ inVersion \notin Supported
                         \/ f.Data # "" /\ f.Binary
                         \/ f.Data = "" /\ inVersion # "3.0"
               /\ (f.Data = "" /\ inVersion = "3.0")
                     => /\ last.err = Nil
                        /\ last.out = "KEY;TYPE=" \o f.Type \o ":" \o URLString(f.URI)

\* Format ran on a binary key with a type and data, for 3.0.
C13_Witness ==
    /\ last.op = "Format"
    /\ inVersion = "3.0"
    /\ inFields[1].kind = "Key"
    /\ inFields[1].Type = "PGP"
    /\ inFields[1].Binary
    /\ last.out = "KEY;TYPE=PGP;ENCODING=b:MIICajCC"

\* C14: on 2.1 and 3.0 an Agent without a nested card renders "AGENT:" and
\* its text; an Agent with a nested card renders "AGENT:" and the nested
\* card's Generate output, or, when that Generate fails, returns the empty
\* string and the same error; on 4.0 every Agent returns the empty string
\* and ErrVersion.
C14_AgentRendering ==
    (last.op = "Format" /\ inFields[1].kind = "Agent" /\ inVersion \in Supported)
        => LET f == inFields[1]
               g == Generate(f.VCard)
           IN  CASE inVersion = "4.0" -> last.out = "" /\ last.err = ErrVersion
                 [] f.VCard = NoCard ->
                      last.out = "AGENT:" \o f.Text /\ last.err = Nil
                 [] f.VCard # NoCard /\ g.err # Nil ->
                      last.out = "" /\ last.err = g.err
                 [] OTHER -> last.out = "AGENT:" \o g.out /\ last.err = Nil

\* Format ran for 2.1 on an Agent holding a text and a valid 3.0 card, and
\* rendered the card.
C14_Witness ==
    /\ last.op = "Format"
    /\ inVersion = "2.1"
    /\ inFields[1] = Agent([Version |-> "3.0", Fields |-> <<N1, FN1>>], "Test Person")
    /\ last.err = Nil
    /\ last.out = "AGENT:BEGIN:VCARD\nVERSION:3.0\nN:Gump;Forrest;;Mr.;\nFN:Forrest Gump\nEND:VCARD"

RECURSIVE UpToColon(_)
UpToColon(s) ==
    IF s = "" \/ Head(s) = ":" THEN "" ELSE SubSeq(s, 1, 1) \o UpToColon(Tail(s))

\* The value of the TYPE parameter of a line that starts with "TEL;TYPE=" or
\* "ADR;TYPE=".
TypeValue(line) == UpToColon(SubSeq(line, 10, Len(line)))

\* C16: on 2.1, 3.0 and 4.0 alike, a Tel renders "TEL;TYPE=" and an Adr
\* "ADR;TYPE=" followed by a non-empty value: the comma-join of the given
\* types when that join is non-empty, and otherwise the default, "voice" for
\* Tel and "intl,postal,parcel,work" for Adr.
C16_TypeNeverEmpty ==
    (/\ last.op = "Format"
     /\ inFields[1].kind \in {"Tel", "Adr"}
     /\ inVersion \in Supported)
        => LET f == inFields[1]
               joined == Join(f.Types, ",")
               default == IF f.kind = "Tel" THEN "voice" ELSE "intl,postal,parcel,work"
               prefix == IF f.kind = "Tel" THEN "TEL;TYPE=" ELSE "ADR;TYPE="
           IN  /\ last.err = Nil
               /\ SubSeq(last.out, 1, 9) = prefix
               /\ TypeValue(last.out) # ""
               /\ TypeValue(last.out) = (IF joined # "" THEN joined ELSE default)
               /\ \A v \in Supported : Format(f, v) = [out |-> last.out, err |-> Nil]

\* Format ran for 4.0 on a Tel whose only type is the empty string, and
\* rendered the default type.
C16_Witness ==
    /\ last.op = "Format"
    /\ inVersion = "4.0"
    /\ inFields[1].kind = "Tel"
    /\ inFields[1].Types = <<"">>
    /\ last.out = "TEL;TYPE=voice:+1-111-555-1212"

\* What the call of goroutine p returns when it runs alone on the registry
\* as initialized.
Alone(p) ==
    CASE procs[p].op = "New" ->
           LET r == New(inVersion, inFields)
           IN  [out |-> "", err |-> r.err, ret |-> r.card]
      [] procs[p].op = "Validate" ->
           [out |-> "", err |-> Validate(Built).err, ret |-> NoCard]
      [] procs[p].op = "Generate" ->
           LET r == Generate(Built)
           IN  [out |-> r.out, err |-> r.err, ret |-> NoCard]

\* C17: with goroutines stepping through New, Validate and Generate in any
\* interleaving, on the shared card and on cards of their own, and nothing
\* mutating a card, every call that has returned has returned what it
\* returns when run alone, the shared card is as it was built, and the
\* registry holds its three entries in every reachable state.
C17_ConcurrentCallsAsAlone ==
    /\ versions = VersionsTable
    /\ Cardinality(DOMAIN versions) = 3
    /\ card = Built
    /\ \A p \in Procs :
          procs[p].pc = "done"
              => [out |-> procs[p].out, err |-> procs[p].err, ret |-> procs[p].ret]
                     = Alone(p)

\* Goroutine 1 has returned from Generate on the shared 3.0 card while
\* goroutine 2 is inside New, between two fields.
C17_Witness ==
    /\ card = [Version |-> "3.0", Fields |-> <<N1, FN1>>]
    /\ procs[1].op = "Generate"
    /\ procs[1].pc = "done"
    /\ procs[1].out = "BEGIN:VCARD\nVERSION:3.0\nN:Gump;Forrest;;Mr.;\nFN:Forrest Gump\nEND:VCARD"
    /\ procs[2].op = "New"
    /\ procs[2].pc = "fields"
    /\ procs[2].i = 2

\* C18: Validate and Generate return on every card, whatever Agent fields
\* it holds: nested cards to any depth, and Agent pointers that lead back to
\* a card whose Generate is in progress; no call recurses until the stack is
\* used up.
C18_CallsReturn == last.err # StackOverflow

\* The calls of a successful QRPng, in order.
QRPngOrder ==
    <<"Validate", "Generate", "qr.Encode", "barcode.Scale", "os.Create", "png.Encode">>

\* C19: QR and QRPng reach everything else through validation: on a card
\* for which Validate fails they return the validation error after calling
\* Validate alone, so that Generate is not called, the encoder is not
\* invoked and QRPng creates no file; and the calls of a successful run are,
\* in this order, Validate, Generate, the encoder, the scaling, and for
\* QRPng the file creation and the PNG write.
C19_ValidateFirst ==
    last.op \in {"QR", "QRPng"}
        => LET v == Validate(card)
               n == Len(last.steps)
           IN  /\ n >= 1
               /\ last.steps = SubSeq(QRPngOrder, 1, n)
               /\ v.err # Nil
                     => /\ last.err = v.err
                        /\ last.steps = <<"Validate">>
                        /\ ~last.created
               /\ last.err = Nil
                     => /\ v.err = Nil
                        /\ n = (IF last.op = "QR" THEN 4 ELSE 6)
               /\ last.created => n = 6

\* QRPng ran on a 2.1 card without fields, built as a literal: it returned
\* the missing-field error of Validate and called nothing else.
C19_Witness ==
    /\ last.op = "QRPng"
    /\ card = [Version |-> "2.1", Fields |-> <<>>]
    /\ last.err = MissingError("vcard.N", "2.1")
    /\ last.steps = <<"Validate">>
    /\ ~last.created

\* C20: on every card on which Validate returns nil, Generate returns a nil
\* error and the complete document, the header, every field's line and the
\* footer; so Generate never fails on a card New returned.
C20_ValidatedCardGenerates ==
    last.op = "Generate"
        => /\ Validate(card).err = Nil
                 => /\ last.err = Nil
                    /\ last.out = Join(DocumentParts(card), "\n")
                    /\ AllFieldsSupport(card)
           /\ origin = "New" => Validate(card).err = Nil /\ last.err = Nil

\* Generate ran on a card New returned for 2.1, holding an N and an Agent
\* whose nested card generates.
C20_Witness ==
    /\ last.op = "Generate"
    /\ origin = "New"
    /\ card = [Version |-> "2.1",
               Fields |-> <<N1, Agent([Version |-> "3.0", Fields |-> <<N1, FN1>>], "")>>]
    /\ Validate(card).err = Nil
    /\ last.err = Nil
    /\ last.out = "BEGIN:VCARD\nVERSION:2.1\nN:Gump;Forrest;;Mr.;\nAGENT:BEGIN:VCARD\nVERSION:3.0\nN:Gump;Forrest;;Mr.;\nFN:Forrest Gump\nEND:VCARD\nEND:VCARD"

\* The nested card c cannot be generated: one of its fields is of a kind
\* the specification's table does not list for c's own version, which is so
\* for every field when that version is unknown.
NestedFails(c) ==
    \E i \in DOMAIN c.Fields : c.Version \notin SpecVersionsOf(KindOf(c.Fields[i]))

\* C21: on a card of version 2.1 or 3.0, an Agent holding a nested card that
\* cannot be generated under the nested card's own version makes Validate
\* fail, when the fields before it render, with the unsupported-field error
\* naming vcard.Agent and the outer version; an Agent whose nested card
\* generates under its own version is not reported, whatever the outer
\* version makes of the nested fields.
C21_NestedFailureNamesAgent ==
    (last.op = "Validate" /\ card.Version \in {"2.1", "3.0"})
        => \A i \in DOMAIN card.Fields :
              LET f == card.Fields[i]
              IN  (/\ f.kind = "Agent"
                   /\ f.VCard # NoCard
                   /\ \A j \in 1..(i - 1) :
                         Format(card.Fields[j], card.Version).err # ErrVersion)
                      => IF NestedFails(f.VCard)
                         THEN last.err = UnsupportedError("vcard.Agent", card.Version)
                         ELSE /\ FirstUnsupported(card) # i
                              /\ last.err # UnsupportedError("vcard.Agent", card.Version)
                                    \/ \E k \in (i + 1)..Len(card.Fields) :
                                          card.Fields[k].kind = "Agent"

\* Validate ran on a 2.1 card holding an N and an Agent whose nested card
\* has the unknown version 2.0, and named the Agent.
C21_Witness ==
    /\ last.op = "Validate"
    /\ card = [Version |-> "2.1",
               Fields |-> <<N1, Agent([Version |-> "2.0", Fields |-> <<FN1>>], "")>>]
    /\ last.err = Errorf("vcard.Agent is an unsupported field for vCard version 2.1")

\* The required kinds of version v that no field of fields has as a value:
\* a pointer to the kind does not count.
MissingByValue(v, fields) ==
    {k \in RequiredKinds(v) :
        \A i \in DOMAIN fields :
            fields[i].kind = "Ptr" \/ "vcard." \o fields[i].kind # k}

\* C22: a field given as a pointer to a kind renders what the value renders
\* and passes the support check as the value does, but does not count as
\* that kind: when every field renders, New returns a card exactly when each
\* required kind occurs as a value, and otherwise fails with the
\* missing-field error of a kind that occurs as no value, a pointer to it or
\* not.
C22_PointerIsNotTheKind ==
    (last.op = "New" /\ inVersion \in Supported)
        => /\ \A i \in DOMAIN inFields :
                 inFields[i].kind = "Ptr"
                     => Format(inFields[i], inVersion) = Format(inFields[i].Elem, inVersion)
           /\ AllFieldsSupport(Built)
                 => LET missing == MissingByValue(inVersion, inFields)
                    IN  IF missing = {}
                        THEN card = Built /\ last.err = Nil
                        ELSE /\ card = NoCard
                             /\ \E k \in missing : last.err = MissingError(k, inVersion)

\* New("4.0", &FN{...}) failed with the missing-FN error.
C22_Witness ==
    /\ last.op = "New"
    /\ inVersion = "4.0"
    /\ inFields = <<Ptr(FN1)>>
    /\ card = NoCard
    /\ last.err = Errorf("vcard.FN is a required field for vCard version 4.0")

====
